---- MODULE Spec2Model ----
(***************************************************************************)
(* A model of hydrofunctions/usgs_rdb.py: the rdb reader read_rdb and the  *)
(* four fetchers that call it (field_meas, peaks, rating_curve, stats).    *)
(*                                                                         *)
(* Text is modelled as a sequence of one-character strings, so that        *)
(* str.splitlines, str.split, "\n".join and the tab tokenizer of           *)
(* pandas.read_csv are computed character by character.                    *)
(***************************************************************************)
EXTENDS Naturals, Sequences, FiniteSets

VARIABLES
    text,        \* the argument of read_rdb (response.text for a fetcher)
    pc,          \* position in the running function
    lines,       \* read_rdb: the list text.splitlines() the for loop walks
    i,           \* index of the next line of text.splitlines() in the for loop
    header,      \* read_rdb: header
    datalines,   \* read_rdb: datalines
    count,       \* read_rdb: count
    columns,     \* read_rdb: columns (bound only once count >= 1)
    dtype,       \* read_rdb: dtype (bound only once count >= 2)
    outputDF,    \* read_rdb: outputDF, the frame read_csv built (NoFrame before)
    outcome,     \* how read_rdb ended: "ok" (it returned) or the exception raised
    fetcher,     \* which function is running: "read_rdb" or one of the fetchers
    status_code, \* response.status_code of the fetcher's request
    result       \* how the fetcher ended

vars == <<text, pc, lines, i, header, datalines, count, columns, dtype, outputDF,
          outcome, fetcher, status_code, result>>

----------------------------------------------------------------------------
(* Characters and the texts the model draws its inputs from.               *)

TAB == <<"\t">>
NL == <<"\n">>

SiteNo == <<"s", "i", "t", "e", "_", "n", "o">>
ParameterCd == <<"p", "a", "r", "a", "m", "e", "t", "e", "r", "_", "c", "d">>
MeasurementDt == <<"m", "e", "a", "s", "u", "r", "e", "m", "e", "n", "t", "_", "d", "t">>
PeakDt == <<"p", "e", "a", "k", "_", "d", "t">>

\* The lines the input texts are made of.
LineHash == <<"#">>
LineComment == <<"#", "c">>
LineBlank == <<>>
LineNames == SiteNo \o TAB \o <<"a", "_", "c", "d">> \o TAB \o <<"v">>
LineDupNames == <<"v">> \o TAB \o <<"v">>
LineHints == <<"3", "n">> \o TAB \o <<"3", "n">> \o TAB \o <<"3", "n">>
LineRow == <<"0", "1">> \o TAB \o <<"0", "2">> \o TAB \o <<"7">>
LineRowEmpty == TAB \o <<"0", "2">> \o TAB
LineRowShort == <<"0", "1">> \o TAB \o <<"0", "2">>

LinePool == {LineHash, LineComment, LineBlank, LineNames, LineDupNames,
             LineHints, LineRow, LineRowEmpty, LineRowShort}

\* The largest number of lines joined into an input text.
MaxLines == 4

----------------------------------------------------------------------------
(* Python string operations.                                               *)

\* sep.join(strs)
RECURSIVE Join(_, _)
Join(strs, sep) ==
    IF strs = <<>> THEN <<>>
    ELSE IF Len(strs) = 1 THEN strs[1]
    ELSE strs[1] \o sep \o Join(Tail(strs), sep)

\* s.split(sepchar) keeping empty pieces: the pieces of s between occurrences
\* of the one-character separator; always at least one piece.
RECURSIVE SplitOn(_, _, _, _)
SplitOn(s, sepchar, cur, acc) ==
    IF s = <<>> THEN Append(acc, cur)
    ELSE IF s[1] = sepchar THEN SplitOn(Tail(s), sepchar, <<>>, Append(acc, cur))
    ELSE SplitOn(Tail(s), sepchar, Append(cur, s[1]), acc)

\* text.splitlines(): the pieces between line breaks, without a last empty
\* piece (so "" gives no line and a final newline adds none).
splitlines(s) ==
    LET pieces == SplitOn(s, "\n", <<>>, <<>>)
    IN  IF pieces[Len(pieces)] = <<>> THEN SubSeq(pieces, 1, Len(pieces) - 1)
        ELSE pieces

IsSpace(c) == c \in {"\t", " "}

\* line.split(): the maximal runs of non-whitespace characters.
split(line) ==
    LET RECURSIVE Go(_, _, _)
        Go(s, cur, acc) ==
            IF s = <<>> THEN (IF cur = <<>> THEN acc ELSE Append(acc, cur))
            ELSE IF IsSpace(s[1])
                 THEN Go(Tail(s), <<>>, IF cur = <<>> THEN acc ELSE Append(acc, cur))
                 ELSE Go(Tail(s), Append(cur, s[1]), acc)
    IN  Go(line, <<>>, <<>>)

----------------------------------------------------------------------------
(* pandas.read_csv(StringIO(data), sep="\t", comment="#", header=None,     *)
(* names=columns, dtype={"site_no": str, "parameter_cd": str}), as the C   *)
(* parser behaves on texts of digits, letters, tabs and newlines.          *)

\* A cell of the frame: t is the kind of value, v its printed form.
\* NaN is pandas' missing value.
NaN == [t |-> "NaN", v |-> <<>>]
StrCell(raw) == [t |-> "str", v |-> raw]
IntCell(digits) == [t |-> "int", v |-> digits]
FloatCell(digits) == [t |-> "float", v |-> digits \o <<".", "0">>]

Digits == {"0", "1", "2", "3", "4", "5", "6", "7", "8", "9"}

\* Whether a field parses as an integer literal.
IsInt(raw) == raw # <<>> /\ \A k \in 1..Len(raw) : raw[k] \in Digits

\* The value of an integer literal, printed: leading zeros are gone.
RECURSIVE ParseInt(_)
ParseInt(raw) ==
    IF Len(raw) > 1 /\ raw[1] = "0" THEN ParseInt(Tail(raw)) ELSE raw

\* comment="#": the rest of a line from the first "#" on is dropped.
RECURSIVE StripComment(_)
StripComment(line) ==
    IF line = <<>> \/ line[1] = "#" THEN <<>>
    ELSE <<line[1]>> \o StripComment(Tail(line))

\* The tokenizer: one record of tab-separated fields per line of data; blank
\* lines and lines that are only a comment are skipped.
Tokenize(data) ==
    LET raw == SplitOn(data, "\n", <<>>, <<>>)
        kept == SelectSeq(raw, LAMBDA l : StripComment(l) # <<>>)
    IN  [r \in 1..Len(kept) |-> SplitOn(StripComment(kept[r]), "\t", <<>>, <<>>)]

\* names may not repeat a name (ValueError: Duplicate names are not allowed).
DuplicateNames(names) ==
    \E a, b \in 1..Len(names) : a # b /\ names[a] = names[b]

\* The number of fields the tokenizer expects in every record: that of the
\* names, or of the first record when it is longer.
ExpectedFields(names, records) ==
    IF records = <<>> THEN Len(names)
    ELSE IF Len(records[1]) > Len(names) THEN Len(records[1])
    ELSE Len(names)

\* A record the tokenizer rejects (ParserError: Expected n fields, saw m).
BadRecordStrict(fields, expected) == Len(fields) # expected
BadRecord(fields, expected) == Len(fields) > expected

\* A record with too few fields is filled with empty fields at the end.
PadRecord(fields, expected) ==
    [k \in 1..expected |-> IF k <= Len(fields) THEN fields[k] ELSE <<>>]

\* The columns the dtype argument forces to str.
StrDtypeNames == {SiteNo, ParameterCd}

\* A field of a column read with dtype str: an empty field is still NaN.
StrDtypeCellKeepEmpty(raw) == StrCell(raw)
StrDtypeCell(raw) == IF raw = <<>> THEN NaN ELSE StrCell(raw)

\* A field of a column whose values do not all parse as numbers: the column
\* stays a column of strings (dtype object), an empty field is NaN.
ObjectCellCoerced(raw) == IF IsInt(raw) THEN IntCell(ParseInt(raw)) ELSE NaN
ObjectCell(raw) == IF raw = <<>> THEN NaN ELSE StrCell(raw)

\* The cells of one column, from its name (<<>> for an index column) and
\* the fields of its records.
ColumnCells(name, raws) ==
    LET present == {k \in 1..Len(raws) : raws[k] # <<>>}
    IN  IF name \in StrDtypeNames
        THEN [k \in 1..Len(raws) |-> StrDtypeCell(raws[k])]
        ELSE IF \A k \in present : IsInt(raws[k])
        THEN IF present = 1..Len(raws)
             THEN [k \in 1..Len(raws) |-> IntCell(ParseInt(raws[k]))]
             ELSE [k \in 1..Len(raws) |->
                      IF raws[k] = <<>> THEN NaN ELSE FloatCell(ParseInt(raws[k]))]
        ELSE [k \in 1..Len(raws) |-> ObjectCell(raws[k])]

\* The exception read_csv raises, or "none".
ReadCsvRaises(names, data) ==
    LET records == Tokenize(data)
        expected == ExpectedFields(names, records)
    IN  IF DuplicateNames(names) THEN "ValueError"
        ELSE IF \E r \in 2..Len(records) : BadRecord(records[r], expected)
        THEN "ParserError"
        ELSE "none"

\* The frame read_csv builds. lead is the number of leading fields of every
\* record that became the row index because the first record has more fields
\* than there are names; cells[r] holds the index cells, then one cell per name.
ReadCsvFrame(names, data) ==
    LET records == Tokenize(data)
        expected == ExpectedFields(names, records)
        lead == expected - Len(names)
        padded == [r \in 1..Len(records) |-> PadRecord(records[r], expected)]
        col(c) == ColumnCells(IF c > lead THEN names[c - lead] ELSE <<>>,
                              [r \in 1..Len(records) |-> padded[r][c]])
    IN  [lead |-> lead,
         names |-> names,
         cells |-> [r \in 1..Len(records) |-> [c \in 1..expected |-> col(c)[r]]]]

\* outputDF before read_csv has returned.
NoFrame == [lead |-> 0, names |-> <<>>, cells |-> <<>>]

----------------------------------------------------------------------------
(* read_rdb                                                                *)

\* line 43: the test that sends a line to header, whatever count is.
IsHeaderLineBeforeColumns(line, cnt) == line[1] = "#" /\ cnt = 0
IsHeaderLine(line, cnt) == line[1] = "#"

\* line 44: what header receives for a line.
HeaderEntryStripped(line) == Tail(line)
HeaderEntry(line) == line

\* line 60: the names handed to read_csv, of the two rows the loop kept.
CsvNamesFromHints(cols, hints) == hints
CsvNames(cols, hints) == cols

\* line 60 reads columns, which only the first branch of the loop binds
\* (lines 45-47): unbound, the read raises UnboundLocalError.
ColumnsUnbound(cnt) == cnt = 0

\* line 67 reads dtype, which only the second branch of the loop binds
\* (lines 48-50).
DtypeNeverUnbound(cnt) == FALSE
DtypeUnbound(cnt) == cnt \in {0, 1}

\* line 43 on an empty line: line[0] raises IndexError.
LoopIndexError ==
    /\ pc = "loop"
    /\ i <= Len(lines)
    /\ lines[i] = <<>>
    /\ outcome' = "IndexError"
    /\ pc' = "done"
    /\ UNCHANGED <<text, lines, i, header, datalines, count, columns, dtype, outputDF,
                   fetcher, status_code, result>>

\* lines 43-44
LoopHeader ==
    /\ pc = "loop"
    /\ i <= Len(lines)
    /\ lines[i] # <<>>
    /\ IsHeaderLine(lines[i], count)
    /\ header' = Append(header, HeaderEntry(lines[i]))
    /\ i' = i + 1
    /\ UNCHANGED <<text, lines, pc, datalines, count, columns, dtype, outputDF, outcome,
                   fetcher, status_code, result>>

\* lines 45-47
LoopColumns ==
    /\ pc = "loop"
    /\ i <= Len(lines)
    /\ lines[i] # <<>>
    /\ ~IsHeaderLine(lines[i], count)
    /\ count = 0
    /\ columns' = split(lines[i])
    /\ count' = count + 1
    /\ i' = i + 1
    /\ UNCHANGED <<text, lines, pc, header, datalines, dtype, outputDF, outcome,
                   fetcher, status_code, result>>

\* lines 48-50
LoopDtype ==
    /\ pc = "loop"
    /\ i <= Len(lines)
    /\ lines[i] # <<>>
    /\ ~IsHeaderLine(lines[i], count)
    /\ count = 1
    /\ dtype' = split(lines[i])
    /\ count' = count + 1
    /\ i' = i + 1
    /\ UNCHANGED <<text, lines, pc, header, datalines, columns, outputDF, outcome,
                   fetcher, status_code, result>>

\* lines 51-52
LoopData ==
    /\ pc = "loop"
    /\ i <= Len(lines)
    /\ lines[i] # <<>>
    /\ ~IsHeaderLine(lines[i], count)
    /\ count \notin {0, 1}
    /\ datalines' = Append(datalines, lines[i])
    /\ i' = i + 1
    /\ UNCHANGED <<text, lines, pc, header, count, columns, dtype, outputDF, outcome,
                   fetcher, status_code, result>>

\* lines 53-67, after the loop: join the data lines, call read_csv, return.
\* Reading columns (line 60) or dtype (line 67) before the loop bound it
\* raises UnboundLocalError.
BuildTable ==
    /\ pc = "loop"
    /\ i > Len(lines)
    /\ LET data == Join(datalines, NL)
           names == CsvNames(columns, dtype)
           raised == ReadCsvRaises(names, data)
       IN  IF ColumnsUnbound(count)
           THEN /\ outcome' = "UnboundLocalError"
                /\ outputDF' = outputDF
           ELSE IF raised # "none"
           THEN /\ outcome' = raised
                /\ outputDF' = outputDF
           ELSE /\ outputDF' = ReadCsvFrame(names, data)
                /\ outcome' = IF DtypeUnbound(count) THEN "UnboundLocalError" ELSE "ok"
    /\ pc' = "done"
    /\ UNCHANGED <<text, lines, i, header, datalines, count, columns, dtype,
                   fetcher, status_code, result>>

read_rdb ==
    \/ LoopIndexError
    \/ LoopHeader
    \/ LoopColumns
    \/ LoopDtype
    \/ LoopData
    \/ BuildTable

\* The state on entry to read_rdb (lines 39-42).
RdbEntry ==
    /\ lines = splitlines(text)
    /\ i = 1
    /\ header = <<>>
    /\ datalines = <<>>
    /\ count = 0
    /\ columns = <<>>
    /\ dtype = <<>>
    /\ outputDF = NoFrame
    /\ outcome = "running"

\* The input texts: up to MaxLines lines of the pool, joined by newlines.
Texts ==
    {Join(ls, NL) : ls \in UNION {[1..n -> LinePool] : n \in 0..MaxLines}}

\* read_rdb called on its own with any of the input texts.
Init ==
    /\ text \in Texts
    /\ pc = "loop"
    /\ fetcher = "read_rdb"
    /\ status_code = 0
    /\ result = "running"
    /\ RdbEntry

Next == read_rdb

Spec == Init /\ [][Next]_vars

----------------------------------------------------------------------------
(* The fetchers: each has sent its request and holds the response.         *)

Fetchers == {"field_meas", "peaks", "rating_curve", "stats"}

\* line 277: the status code stats accepts.
HttpOk == 200

\* The status codes a response is drawn from: success, a success that is not
\* 200, and a client error.
StatusCodes == {HttpOk, 204, 404}

\* response.raise_for_status() raises HTTPError for 4xx and 5xx codes only.
RaisesForStatus(code) == code >= 400 /\ code < 600

HintPair == <<"3", "n">> \o TAB \o <<"3", "n">>
BodyErrorPage == <<"<", "e", ">">>
BodyErrorPageBlank == Join(<<BodyErrorPage, LineBlank, BodyErrorPage>>, NL)
BodyMeasurements ==
    Join(<<LineComment, MeasurementDt \o TAB \o <<"v">>, HintPair, LineRowShort>>, NL)
BodyPeaks ==
    Join(<<LineComment, PeakDt \o TAB \o <<"v">>, HintPair, LineRowShort>>, NL)
BodyRating ==
    Join(<<LineComment,
           <<"a">> \o TAB \o <<"b">> \o TAB \o <<"c">> \o TAB \o <<"d">>,
           HintPair \o TAB \o HintPair,
           LineRow \o TAB \o <<"2">>>>, NL)
BodyStats == Join(<<LineComment, LineNames, LineHints, LineRow>>, NL)

\* The response bodies a fetcher may receive.
Bodies == {BodyErrorPage, BodyErrorPageBlank, BodyMeasurements, BodyPeaks, BodyRating, BodyStats}

\* read_rdb(response.text) is called: its locals are set up (lines 39-42).
CallReadRdb ==
    /\ pc' = "loop"
    /\ lines' = splitlines(text)
    /\ UNCHANGED <<text, i, header, datalines, count, columns, dtype, outputDF,
                   outcome, fetcher, status_code, result>>

\* How a fetcher ends once read_rdb has: read_rdb's exception goes on up,
\* otherwise the fetcher's own steps on the frame decide.
Finish(own) ==
    /\ pc = "done"
    /\ result' = IF outcome # "ok" THEN outcome ELSE own
    /\ pc' = "end"
    /\ UNCHANGED <<text, lines, i, header, datalines, count, columns, dtype,
                   outputDF, outcome, fetcher, status_code>>

\* The cells of the column called name.
NamedColumn(frame, name) ==
    LET c == CHOOSE k \in 1..Len(frame.names) : frame.names[k] = name
    IN  [r \in 1..Len(frame.cells) |-> frame.cells[r][frame.lead + c]]

\* outputDF.<name> = pd.to_datetime(outputDF.<name>); set_index(<name>):
\* AttributeError without such a column; numbers and NaN convert, and no string
\* of the model's alphabet is a date.
DateIndex(frame, name) ==
    IF \A k \in 1..Len(frame.names) : frame.names[k] # name
    THEN "AttributeError"
    ELSE IF \E r \in 1..Len(frame.cells) : NamedColumn(frame, name)[r].t = "str"
    THEN "ValueError"
    ELSE "frame"

\* lines 117-123: field_meas hands the body to read_rdb whatever the status.
FieldMeasCall ==
    /\ fetcher = "field_meas"
    /\ pc = "response"
    /\ CallReadRdb

\* lines 124-134
FieldMeasFinish ==
    /\ fetcher = "field_meas"
    /\ Finish(DateIndex(outputDF, MeasurementDt))

\* lines 158-160: peaks hands the body to read_rdb whatever the status.
PeaksCall ==
    /\ fetcher = "peaks"
    /\ pc = "response"
    /\ CallReadRdb

\* lines 161-165
PeaksFinish ==
    /\ fetcher = "peaks"
    /\ Finish(DateIndex(outputDF, PeakDt))

\* lines 189-190: rating_curve hands the body to read_rdb whatever the status.
RatingCurveCall ==
    /\ fetcher = "rating_curve"
    /\ pc = "response"
    /\ CallReadRdb

\* lines 191-201: four new column names fit a frame of four columns only.
RatingCurveFinish ==
    /\ fetcher = "rating_curve"
    /\ Finish(IF Len(outputDF.names) = Len(<<"stage", "shift", "discharge", "stor">>)
              THEN "frame" ELSE "ValueError")

\* line 277: the test that keeps stats from parsing the body.
StatsRejects(code) == code # HttpOk

\* lines 277-285: the error page is displayed, then raise_for_status() raises
\* or, for a code it accepts, the response itself is returned.
StatsError ==
    /\ fetcher = "stats"
    /\ pc = "response"
    /\ StatsRejects(status_code)
    /\ result' = IF RaisesForStatus(status_code) THEN "HTTPError" ELSE "response"
    /\ pc' = "end"
    /\ UNCHANGED <<text, lines, i, header, datalines, count, columns, dtype,
                   outputDF, outcome, fetcher, status_code>>

\* lines 286-287
StatsCall ==
    /\ fetcher = "stats"
    /\ pc = "response"
    /\ ~StatsRejects(status_code)
    /\ CallReadRdb

\* line 288
StatsFinish ==
    /\ fetcher = "stats"
    /\ Finish("frame")

InitFetch ==
    /\ fetcher \in Fetchers
    /\ status_code \in StatusCodes
    /\ text \in Bodies
    /\ pc = "response"
    /\ result = "running"
    /\ lines = <<>>
    /\ i = 1
    /\ header = <<>>
    /\ datalines = <<>>
    /\ count = 0
    /\ columns = <<>>
    /\ dtype = <<>>
    /\ outputDF = NoFrame
    /\ outcome = "running"

NextFetch ==
    \/ FieldMeasCall
    \/ FieldMeasFinish
    \/ PeaksCall
    \/ PeaksFinish
    \/ RatingCurveCall
    \/ RatingCurveFinish
    \/ StatsError
    \/ StatsCall
    \/ StatsFinish
    \/ read_rdb

SpecFetch == InitFetch /\ [][NextFetch]_vars

----------------------------------------------------------------------------
(* The vocabulary of the properties.                                       *)

Done == pc = "done"
Returned == pc = "done" /\ outcome = "ok"

StartsWithHash(line) == line # <<>> /\ line[1] = "#"
NoHash(line) == ~StartsWithHash(line)

\* The column type policy of the specification: a name that is site_no or
\* parameter_cd or ends in _cd is an identifier; a hint's type code is its
\* first character that is no digit.
EndsWithCd(name) ==
    Len(name) >= 3 /\ SubSeq(name, Len(name) - 2, Len(name)) = <<"_", "c", "d">>
IdentifierName(name) == name \in {SiteNo, ParameterCd} \/ EndsWithCd(name)
RECURSIVE TypeCode(_)
TypeCode(hint) ==
    IF hint = <<>> THEN ""
    ELSE IF hint[1] \in Digits THEN TypeCode(Tail(hint)) ELSE hint[1]
NumericColumn(c) ==
    /\ ~IdentifierName(columns[c])
    /\ c <= Len(dtype)
    /\ TypeCode(dtype[c]) = "n"

\* The tab-separated fields of data line r, and the number of leading fields
\* of every data line that stand before the first named column.
RawFields(r) == SplitOn(datalines[r], "\t", <<>>, <<>>)
Surplus ==
    IF datalines # <<>> /\ Len(RawFields(1)) > Len(columns)
    THEN Len(RawFields(1)) - Len(columns) ELSE 0
Width == Len(columns) + Surplus
HasField(r, c) == Surplus + c <= Len(RawFields(r))
RawOf(r, c) == IF HasField(r, c) THEN RawFields(r)[Surplus + c] ELSE <<>>
CellOf(r, c) == outputDF.cells[r][Surplus + c]
Rows == 1..Len(datalines)
Cols == 1..Len(columns)
TooLongRow == \E r \in Rows : r > 1 /\ Len(RawFields(r)) > Width
Repeats(names) == \E a, b \in 1..Len(names) : a < b /\ names[a] = names[b]

----------------------------------------------------------------------------
(* C1 *)

\* C1: the header read_rdb returns is exactly the lines of the input whose
\* first character is "#", unmodified and in input order, a bare "#" included.
C1_HeaderIsTheHashLines ==
    Returned => header = SelectSeq(splitlines(text), StartsWithHash)

\* A returned table of one data row whose header is a bare "#" that follows
\* the column-name row.
C1_Witness ==
    /\ Returned
    /\ header = <<LineHash>>
    /\ datalines # <<>>
    /\ NoHash(splitlines(text)[1])

----------------------------------------------------------------------------
(* C2 *)

\* C2: every non-empty cell of a column named site_no or parameter_cd, or
\* whose name ends in _cd, is the raw field text, leading zeros kept.
C2_IdentifierColumnsKeepRawText ==
    Returned =>
        \A r \in Rows, c \in Cols :
            (IdentifierName(columns[c]) /\ RawOf(r, c) # <<>>)
                => CellOf(r, c) = StrCell(RawOf(r, c))

----------------------------------------------------------------------------
(* C3 *)

\* An empty input, an input of "#" lines only, or "#" lines and then one last
\* line that is the column-name row.
TruncatedInput ==
    LET ls == splitlines(text)
    IN  \A k \in 1..Len(ls) : ls[k] # <<>> /\ (k < Len(ls) => StartsWithHash(ls[k]))

\* C3 as stated: a truncated input always ends in the one failure of a
\* truncated document, which in read_rdb is the read of the unbound columns
\* or dtype.
C3_TruncatedAlwaysSameFailure ==
    (Done /\ TruncatedInput) => outcome = "UnboundLocalError"

\* C3 amended: a truncated input never returns a table and always fails; the
\* failure is the unbound columns or dtype, except that a lone column-name
\* row that repeats a name is rejected by read_csv first (ValueError).
C3_TruncatedAlwaysFails ==
    (Done /\ TruncatedInput) =>
        LET ls == splitlines(text)
        IN  outcome = IF /\ ls # <<>>
                         /\ ~StartsWithHash(ls[Len(ls)])
                         /\ Repeats(split(ls[Len(ls)]))
                      THEN "ValueError" ELSE "UnboundLocalError"

\* A comment line and a column-name row, no type-hint row: read_csv built an
\* empty frame and the return failed on dtype.
C3_Witness ==
    /\ Done
    /\ TruncatedInput
    /\ header = <<LineComment>>
    /\ columns = split(LineNames)
    /\ outcome = "UnboundLocalError"

----------------------------------------------------------------------------
(* C4 *)

\* C4 as stated: a data row whose field count differs from the number of
\* column names makes the parse fail (here under distinct names and a first
\* data row no longer than the names).
C4_RowArityAlwaysFails ==
    (Done /\ count = 2 /\ ~Repeats(columns) /\ Surplus = 0
          /\ \E r \in Rows : Len(RawFields(r)) # Len(columns))
        => outcome # "ok"

\* C4 amended: with both header rows read and distinct names, the parse fails
\* (ParserError) exactly when a data row after the first has more fields than
\* both the names and the first data row; otherwise the table is returned, the
\* cells a short row lacks are NaN, and the surplus leading fields of a long
\* first row are the row index.
C4_ShortRowsPaddedLongRowsRejected ==
    (Done /\ outcome # "IndexError" /\ count = 2 /\ ~Repeats(columns)) =>
        IF TooLongRow THEN outcome = "ParserError"
        ELSE /\ outcome = "ok"
             /\ outputDF.lead = Surplus
             /\ Len(outputDF.cells) = Len(datalines)
             /\ \A r \in Rows :
                    /\ Len(outputDF.cells[r]) = Width
                    /\ \A k \in 1..Width :
                           k > Len(RawFields(r)) => outputDF.cells[r][k] = NaN

\* A returned table with a row of fewer fields than names after a full row.
C4_Witness ==
    /\ Returned
    /\ Len(datalines) = 2
    /\ Len(RawFields(1)) = Len(columns)
    /\ Len(RawFields(2)) < Len(columns)
    /\ CellOf(2, Len(columns)) = NaN

----------------------------------------------------------------------------
(* C5 *)

\* C5 as stated: an empty field is the empty string in an identifier column
\* and Missing in a column with a numeric hint.
C5_EmptyFieldByColumnType ==
    Returned =>
        \A r \in Rows, c \in Cols :
            (HasField(r, c) /\ RawOf(r, c) = <<>>) =>
                /\ IdentifierName(columns[c]) => CellOf(r, c) = StrCell(<<>>)
                /\ NumericColumn(c) => CellOf(r, c) = NaN

\* C5 amended: an empty field is NaN (Missing) in every column, the string
\* columns site_no and parameter_cd included.
C5_EmptyFieldIsAlwaysNaN ==
    Returned =>
        \A r \in Rows, c \in Cols :
            (HasField(r, c) /\ RawOf(r, c) = <<>>) => CellOf(r, c) = NaN

\* A returned table with an empty site_no field.
C5_Witness ==
    /\ Returned
    /\ \E r \in Rows, c \in Cols :
           /\ columns[c] = SiteNo
           /\ HasField(r, c)
           /\ RawOf(r, c) = <<>>
           /\ CellOf(r, c) = NaN

----------------------------------------------------------------------------
(* C6 *)

\* A non-empty field of column c that is no number.
Unparsable(r, c) == RawOf(r, c) # <<>> /\ ~IsInt(RawOf(r, c))

----------------------------------------------------------------------------
(* C7 *)

\* C7: a fetcher runs read_rdb on a response body only when the status code
\* is 200, and returns no table for any other code.
C7_ParserOnlyOnStatus200 ==
    (fetcher \in Fetchers /\ (pc \in {"loop", "done"} \/ result = "frame"))
        => status_code = HttpOk

----------------------------------------------------------------------------
(* C8 *)

\* The position of the first line without "#" in front.
FirstNoHash(ls) == CHOOSE k \in 1..Len(ls) : NoHash(ls[k]) /\ \A j \in 1..(k - 1) : StartsWithHash(ls[j])

\* C8 as stated: the first line without "#" is the column names, the very
\* next input line the type hints, and every line after that is data.
C8_NextLineIsHintsRestIsData ==
    (Done /\ outcome # "IndexError" /\ count = 2) =>
        LET f == FirstNoHash(lines)
        IN  /\ columns = split(lines[f])
            /\ dtype = split(lines[f + 1])
            /\ datalines = SubSeq(lines, f + 2, Len(lines))

\* C8 amended, at every step of the loop: of the lines read so far, those
\* with "#" in front are the header, in order, wherever they stand; of the
\* others the first is the column names, the second the type hints, the rest
\* the data lines, in order; count never goes back.
C8_SplitterState ==
    LET seen == SubSeq(lines, 1, i - 1)
        rest == SelectSeq(seen, NoHash)
    IN  /\ header = SelectSeq(seen, StartsWithHash)
        /\ count = (IF Len(rest) < 2 THEN Len(rest) ELSE 2)
        /\ Len(rest) >= 1 => columns = split(rest[1])
        /\ Len(rest) >= 2 => dtype = split(rest[2])
        /\ datalines = SubSeq(rest, 3, Len(rest))

C8_SplitterForward ==
    [](pc \in {"loop", "done"} => C8_SplitterState) /\ [][count' >= count]_vars

\* A comment line after the type-hint row went to the header, not the data.
C8_Witness ==
    /\ Returned
    /\ lines = <<LineNames, LineHints, LineComment, LineRow>>
    /\ header = <<LineComment>>
    /\ datalines = <<LineRow>>

----------------------------------------------------------------------------
(* C9 *)

\* An input that is well formed but for empty lines among its data rows:
\* "#" lines, a row of distinct names, a row of as many hints, then rows of
\* as many fields each, and at least one empty line after the hints.
WellFormedWithBlankRow ==
    LET ls == splitlines(text)
        full == SelectSeq(ls, LAMBDA l : l # <<>>)
    IN  /\ \E k \in 1..Len(full) : NoHash(full[k])
        /\ LET f == FirstNoHash(full)
           IN  /\ f + 1 <= Len(full)
               /\ \A k \in (f + 1)..Len(full) : NoHash(full[k])
               /\ ~Repeats(split(full[f]))
               /\ Len(split(full[f + 1])) = Len(split(full[f]))
               /\ \A k \in (f + 2)..Len(full) :
                      Len(SplitOn(full[k], "\t", <<>>, <<>>)) = Len(split(full[f]))
               /\ \A k \in 1..(f + 1) : ls[k] = full[k]
               /\ \E k \in (f + 2)..Len(ls) : ls[k] = <<>>

\* C9: an empty line where a data row is expected is tolerated: the parse of
\* an otherwise well-formed document still returns a table.
C9_BlankDataLineTolerated ==
    (Done /\ WellFormedWithBlankRow) => outcome = "ok"

----------------------------------------------------------------------------
(* C10 *)

\* C10 as stated: column-name and type-hint rows of different lengths make
\* the parse fail.
C10_ColumnCountMismatchFails ==
    (Done /\ count = 2 /\ Len(columns) # Len(dtype)) => outcome # "ok"

\* C10 amended: the two rows are never compared. With names and hints of
\* different lengths, distinct names and no over-long data row, the table is
\* returned; its columns are the names, whatever the hints, and the hints
\* are returned as they were split.
C10_HintRowLengthIgnored ==
    (Done /\ outcome # "IndexError" /\ count = 2
          /\ Len(columns) # Len(dtype) /\ ~Repeats(columns) /\ ~TooLongRow) =>
        /\ outcome = "ok"
        /\ outputDF.names = columns
        /\ dtype = split(SelectSeq(lines, NoHash)[2])
        /\ \A r \in Rows : Len(outputDF.cells[r]) = outputDF.lead + Len(columns)

\* A returned table of three columns under a row of two hints.
C10_Witness ==
    /\ Returned
    /\ columns = split(LineNames)
    /\ Len(dtype) = Len(columns) - 1
    /\ datalines = <<LineRow>>

====
